---- MODULE Spec2Model ----
(***************************************************************************)
(* FastGPT Go SDK: the SSE reader of ChatAPI.Chat (src/api/chat/chat.go),  *)
(* and the request/response methods of the chat, dataset and app APIs on   *)
(* top of Client.DoRequest and Client.ParseResponse.                       *)
(*                                                                         *)
(* Chat sends one request, then scans the response body line by line.      *)
(* The body is a stream: the model reveals it one scanner.Scan() at a      *)
(* time and keeps the lines read so far in `read`.  The handler is user    *)
(* code: each invocation returns nil or an error of its choice.            *)
(***************************************************************************)
EXTENDS Naturals, Sequences, FiniteSets

VARIABLES
    pc,            \* where Chat is: "request", "scan" (the for loop), "returned"
    read,          \* the lines scanner.Text() has returned so far, in order
    currentEvent,  \* chat.go:118
    currentData,   \* chat.go:119
    calls,         \* the handler invocations so far, each with the line it
                   \* was made at and the payload it was made for
    decodes,       \* the json.Unmarshal calls so far, likewise
    err,           \* what Chat returned: [kind, e]; kind "none" while it runs
    call,          \* the API method called, the Client it is called on, the
                   \* request argument it is called with, and whether the
                   \* method was called on the same API object before
    sent,          \* the HTTP requests HTTPClient.Do was given, in order
    body,          \* resp.Body: "none" before a response, "open", "closed"
    response,      \* the server's answer to a request/response method
    result         \* the value a request/response method returned

vars == <<pc, read, currentEvent, currentData, calls, decodes, err,
          call, sent, body, response, result>>

----------------------------------------------------------------------------
(* Bounds of the model. *)

\* The longest response stream, in lines.
MaxLines == 5

\* SpecDispatch: the most data: lines of the one block it dispatches.
MaxBlockData == 2

----------------------------------------------------------------------------
(* Go's strings package, on TLA+ strings. *)

HasPrefix(s, prefix) ==
    /\ Len(s) >= Len(prefix)
    /\ SubSeq(s, 1, Len(prefix)) = prefix

TrimPrefix(s, prefix) ==
    IF HasPrefix(s, prefix) THEN SubSeq(s, Len(prefix) + 1, Len(s)) ELSE s

RECURSIVE Join(_, _)
Join(elems, sep) ==
    IF Len(elems) = 0 THEN ""
    ELSE IF Len(elems) = 1 THEN elems[1]
    ELSE elems[1] \o sep \o Join(Tail(elems), sep)

----------------------------------------------------------------------------
(* encoding/json as Chat uses it: json.Unmarshal of the payload into a     *)
(* struct.  JSON allows white space around the value; "{}" decodes to the  *)
(* struct with every field zero and "null" leaves the struct untouched.    *)
(* Every other payload the model's streams can carry ("", "[DONE]",        *)
(* "{}{}", "[DONE]{}", ...) is a syntax or a type error.                   *)

RECURSIVE TrimLeftSpace(_)
TrimLeftSpace(s) ==
    IF Len(s) > 0 /\ SubSeq(s, 1, 1) = " "
    THEN TrimLeftSpace(SubSeq(s, 2, Len(s))) ELSE s

RECURSIVE TrimRightSpace(_)
TrimRightSpace(s) ==
    IF Len(s) > 0 /\ SubSeq(s, Len(s), Len(s)) = " "
    THEN TrimRightSpace(SubSeq(s, 1, Len(s) - 1)) ELSE s

Unmarshal(payload, into) ==
    LET text == TrimRightSpace(TrimLeftSpace(payload)) IN
    IF text = "{}" \/ text = "null"
    THEN [ok |-> TRUE, value |-> [type |-> into, value |-> "{}"]]
    ELSE [ok |-> FALSE, value |-> [type |-> into, value |-> ""]]

----------------------------------------------------------------------------
(* The pieces of Chat's loop body. *)

\* var currentEvent string: Go's zero value.
InitialEvent == ""

\* currentEvent = "message" after a dispatch (chat.go:204).
ResetEvent == "message"

\* A [DONE] branch that leaves the event name as it is.
DoneResetEventKept == currentEvent

\* currentEvent = "message" after a [DONE] dispatch (chat.go:152).
DoneResetEvent == "message"

\* A join that puts a line break between the data lines.
JoinSepNewline == "\n"

\* strings.Join(currentData, "")
JoinSep == ""

dataContent == Join(currentData, JoinSep)

\* A data: value with every leading space removed.
DataValueTrimLeft(line) == TrimLeftSpace(TrimPrefix(line, "data:"))

\* The value of a data: line (chat.go:215-219).
DataValue(line) ==
    LET value == TrimPrefix(line, "data:") IN
    IF value = "" \/ HasPrefix(value, " ") THEN TrimPrefix(value, " ") ELSE value

\* The name an event: line sets (chat.go:223-227); an empty value sets none.
EventValue(line, current) ==
    LET value == TrimPrefix(line, "event:") IN
    IF value # "" THEN TrimPrefix(value, " ") ELSE current

\* A switch without the "interactive" case: it falls to the default.
DecodeTargetNoInteractive(eventName) ==
    CASE eventName = "flowNodeStatus" -> "FlowNodeStatusEvent"
      [] eventName \in {"answer", "fastAnswer"} -> "AnswerEvent"
      [] eventName = "flowResponses" -> "FlowResponsesEvent"
      [] OTHER -> "string"

\* The switch on currentEvent (chat.go:132-201): the structure the payload is
\* decoded into, "string" for the cases that pass the payload on undecoded.
DecodeTarget(eventName) ==
    CASE eventName = "flowNodeStatus" -> "FlowNodeStatusEvent"
      [] eventName \in {"answer", "fastAnswer"} -> "AnswerEvent"
      [] eventName = "flowResponses" -> "FlowResponsesEvent"
      [] eventName \in {"toolCall", "toolParams", "toolResponse",
                        "updateVariables", "error"} -> "string"
      [] eventName = "interactive" -> "Interactive"
      [] OTHER -> "string"

\* A [DONE] check under case "answer" alone.
IsDoneAnswerOnly(eventName, payload) ==
    /\ eventName = "answer"
    /\ payload = "[DONE]"

\* if dataContent == "[DONE]" inside case "answer", "fastAnswer" (chat.go:144-147).
IsDone(eventName, payload) ==
    /\ eventName \in {"answer", "fastAnswer"}
    /\ payload = "[DONE]"

StringData(s) == [type |-> "string", value |-> s]

\* What the handler may return: nil or an error of its own.
HandlerErrors == {"E1", "E2"}
HandlerReturns == {"nil"} \cup HandlerErrors

NoError == [kind |-> "none", e |-> ""]
NilError == [kind |-> "nil", e |-> ""]

\* if err := handler(...); err != nil { return err }, else fall to the reset.
HandlerError(ret) == [kind |-> "handler", e |-> ret]

\* if err := json.Unmarshal(...); err != nil { return err }
DecodeError(into) == [kind |-> "decode", e |-> into]

\* The lines a response stream is made of.
DataLines == {"data: [DONE]", "data:{}", "data:  ", "data:"}
EventLines == {"event: answer", "event:flowNodeStatus", "event:"}
OtherLines == {"id: 1", "{}"}
Lines == {""} \cup DataLines \cup EventLines \cup OtherLines

----------------------------------------------------------------------------
(* Client.DoRequest (src/unnamed/part_001:321-346).  The request argument  *)
(* of an API method is the untyped nil ("nil"), a nil pointer of a request *)
(* type ("nilptr": not nil as an interface, json.Marshal gives null) or a  *)
(* request value ("value").                                                *)

\* The last base URL is one url.Parse rejects.
BaseURLs == {"https://cloud.fastgpt.cn", "http://localhost:3000/", ":"}
APIKeys == {"sk-xxx", ""}
Clients == [BaseURL : BaseURLs, APIKey : APIKeys]

\* var reqBody io.Reader: the nil reader.
NoBody == [kind |-> "none", json |-> ""]

\* A body marshalled for every argument, the untyped nil included.
RequestBodyOfNil(arg) ==
    [kind |-> "json", json |-> IF arg = "value" THEN "{}" ELSE "null"]

\* if body != nil { jsonBody, err := json.Marshal(body); ... }
RequestBody(arg) ==
    IF arg # "nil"
    THEN [kind |-> "json", json |-> IF arg = "value" THEN "{}" ELSE "null"]
    ELSE NoBody

\* The three req.Header.Set calls.
Header(c) ==
    [h \in {"Authorization", "Content-Type", "User-Agent"} |->
        CASE h = "Authorization" -> "Bearer " \o c.APIKey
          [] h = "Content-Type" -> "application/json"
          [] h = "User-Agent" -> "go-fastgpt-client"]

\* http.NewRequest(method, c.BaseURL+path, reqBody) and its headers.
NewRequest(c, method, path, arg) ==
    [method |-> method, url |-> c.BaseURL \o path,
     header |-> Header(c), body |-> RequestBody(arg)]

\* How DoRequest can end: "ok", or the error of json.Marshal (a request
\* value json cannot encode), of http.NewRequest (a URL that does not parse)
\* or of HTTPClient.Do.
DoRequestOutcomes(c, arg) ==
    IF c.BaseURL = ":"
    THEN {"NewRequest"} \cup (IF arg = "value" THEN {"Marshal"} ELSE {})
    ELSE {"ok", "Do"} \cup (IF arg = "value" THEN {"Marshal"} ELSE {})

\* A DoRequest that sends the request again when HTTPClient.Do fails.
DoRequestRetry(method, path, outcome) ==
    LET req == NewRequest(call.client, method, path, call.arg) IN
    sent' = IF outcome = "ok" THEN Append(sent, req)
            ELSE IF outcome = "Do" THEN sent \o <<req, req>>
            ELSE sent

\* DoRequest: HTTPClient.Do is reached, once, unless an earlier step failed.
DoRequest(method, path, outcome) ==
    LET req == NewRequest(call.client, method, path, call.arg) IN
    sent' = IF outcome \in {"ok", "Do"} THEN Append(sent, req) ELSE sent

\* The error DoRequest returned, as its caller returns it.
RequestError(outcome) == [kind |-> "request", e |-> outcome]

\* defer resp.Body.Close() (chat.go:112), run at the return.
DeferredClose(b) == "closed"

\* No response yet, no value returned yet.
NoResponse == [status |-> 0, body |-> [kind |-> "none"]]
NoResult == [kind |-> "none"]

----------------------------------------------------------------------------
(* Chat, step by step. *)

\* The Client that Spec calls Chat on.
ChatClient == [BaseURL |-> "https://cloud.fastgpt.cn", APIKey |-> "sk-xxx"]

Init ==
    /\ pc = "request"
    /\ read = <<>>
    /\ currentEvent = InitialEvent
    /\ currentData = <<>>
    /\ calls = <<>>
    /\ decodes = <<>>
    /\ err = NoError
    /\ call = [api |-> "Chat", client |-> ChatClient, arg |-> "value",
               earlier |-> FALSE]
    /\ sent = <<>>
    /\ body = "none"
    /\ response = NoResponse
    /\ result = NoResult

\* api.client.DoRequest succeeded: the body is there to scan.
DoRequestOK ==
    /\ pc = "request"
    /\ call.api = "Chat"
    /\ "ok" \in DoRequestOutcomes(call.client, call.arg)
    /\ DoRequest("POST", "/api/v1/chat/completions", "ok")
    /\ body' = "open"
    /\ pc' = "scan"
    /\ UNCHANGED <<read, currentEvent, currentData, calls, decodes, err,
                   call, response, result>>

\* A Chat that goes on to scan after a DoRequest error.
DoRequestFailIgnored ==
    /\ pc = "request"
    /\ call.api = "Chat"
    /\ \E outcome \in DoRequestOutcomes(call.client, call.arg) \ {"ok"} :
        DoRequest("POST", "/api/v1/chat/completions", outcome)
    /\ pc' = "scan"
    /\ UNCHANGED <<read, currentEvent, currentData, calls, decodes, err,
                   call, body, response, result>>

\* api.client.DoRequest failed: return err.
DoRequestFail ==
    /\ pc = "request"
    /\ call.api = "Chat"
    /\ \E outcome \in DoRequestOutcomes(call.client, call.arg) \ {"ok"} :
        /\ DoRequest("POST", "/api/v1/chat/completions", outcome)
        /\ err' = RequestError(outcome)
    /\ pc' = "returned"
    /\ UNCHANGED <<read, currentEvent, currentData, calls, decodes,
                   call, body, response, result>>

\* A loop that drops the handler's error and goes on.
AfterHandlerErrorDropped(ret, reset) ==
    /\ currentEvent' = reset
    /\ currentData' = <<>>
    /\ UNCHANGED <<pc, err, body>>

\* if err := handler(...); err != nil { return err }; otherwise the reset
\* of chat.go:203-205 (or 151-153), and the loop goes on.
AfterHandler(ret, reset) ==
    IF ret # "nil"
    THEN /\ pc' = "returned"
         /\ err' = HandlerError(ret)
         /\ body' = DeferredClose(body)
         /\ UNCHANGED <<currentEvent, currentData>>
    ELSE /\ currentEvent' = reset
         /\ currentData' = <<>>
         /\ UNCHANGED <<pc, err, body>>

\* A [DONE] branch that ends the call: return nil in place of continue.
AfterDoneReturn(ret) ==
    /\ pc' = "returned"
    /\ err' = IF ret # "nil" THEN HandlerError(ret) ELSE NilError
    /\ body' = DeferredClose(body)
    /\ currentEvent' = DoneResetEvent
    /\ currentData' = <<>>

\* After handler(currentEvent, "[DONE]") (chat.go:148-154): reset, continue.
AfterDone(ret) == AfterHandler(ret, DoneResetEvent)

\* handler(currentEvent, data)
Invoke(data, ret) ==
    calls' = Append(calls, [at |-> Len(read) + 1, eventType |-> currentEvent,
                            payload |-> dataContent, data |-> data, ret |-> ret])

\* A dispatch that waits for a second data: line.
HasDataOffByOne == Len(currentData) > 1

\* A dispatch on every blank line, with data or without.
HasDataAlways == TRUE

\* if len(currentData) > 0 (chat.go:127)
HasData == Len(currentData) > 0

\* A decode whose error is not looked at.
DecodeFailedIgnored(r) == FALSE

\* if err := json.Unmarshal(...); err != nil (chat.go:136, 159, 170, 188)
DecodeFailed(r) == ~r.ok

\* The blank line's work when data has accumulated (chat.go:127-206).
Dispatch(ret) ==
    LET into == DecodeTarget(currentEvent)
        r == Unmarshal(dataContent, into)
    IN  IF IsDone(currentEvent, dataContent)
        THEN /\ Invoke(StringData("[DONE]"), ret)
             /\ decodes' = decodes
             /\ AfterDone(ret)
        ELSE IF into = "string"
        THEN /\ Invoke(StringData(dataContent), ret)
             /\ decodes' = decodes
             /\ AfterHandler(ret, ResetEvent)
        ELSE /\ decodes' = Append(decodes,
                    [at |-> Len(read) + 1, event |-> currentEvent,
                     payload |-> dataContent, into |-> into, ok |-> r.ok])
             /\ IF DecodeFailed(r)
                THEN /\ pc' = "returned"
                     /\ err' = DecodeError(into)
                     /\ body' = DeferredClose(body)
                     /\ UNCHANGED <<currentEvent, currentData, calls>>
                ELSE /\ Invoke(r.value, ret)
                     /\ AfterHandler(ret, ResetEvent)

\* A blank line that resets the event name also when it dispatches nothing.
ScanBlankResetsEvent ==
    /\ pc = "scan"
    /\ Len(read) < MaxLines
    /\ read' = Append(read, "")
    /\ IF HasData
       THEN \E ret \in HandlerReturns : Dispatch(ret)
       ELSE /\ currentEvent' = ResetEvent
            /\ UNCHANGED <<pc, currentData, calls, decodes, err, body>>
    /\ UNCHANGED <<call, sent, response, result>>

\* scanner.Scan() gave the empty line.
ScanBlank ==
    /\ pc = "scan"
    /\ Len(read) < MaxLines
    /\ read' = Append(read, "")
    /\ IF HasData
       THEN \E ret \in HandlerReturns : Dispatch(ret)
       ELSE UNCHANGED <<pc, currentEvent, currentData, calls, decodes, err, body>>
    /\ UNCHANGED <<call, sent, response, result>>

\* scanner.Scan() gave a data: line.
ScanData ==
    /\ pc = "scan"
    /\ Len(read) < MaxLines
    /\ \E line \in Lines :
        /\ line # ""
        /\ HasPrefix(line, "data:")
        /\ read' = Append(read, line)
        /\ currentData' = Append(currentData, DataValue(line))
    /\ UNCHANGED <<pc, currentEvent, calls, decodes, err,
                   call, sent, body, response, result>>

\* scanner.Scan() gave an event: line.
ScanEvent ==
    /\ pc = "scan"
    /\ Len(read) < MaxLines
    /\ \E line \in Lines :
        /\ line # ""
        /\ ~HasPrefix(line, "data:")
        /\ HasPrefix(line, "event:")
        /\ read' = Append(read, line)
        /\ currentEvent' = EventValue(line, currentEvent)
    /\ UNCHANGED <<pc, currentData, calls, decodes, err,
                   call, sent, body, response, result>>

\* A loop that takes every other line as one more data value.
ScanOtherAsData ==
    /\ pc = "scan"
    /\ Len(read) < MaxLines
    /\ \E line \in Lines :
        /\ line # ""
        /\ ~HasPrefix(line, "data:")
        /\ ~HasPrefix(line, "event:")
        /\ read' = Append(read, line)
        /\ currentData' = Append(currentData, line)
    /\ UNCHANGED <<pc, currentEvent, calls, decodes, err,
                   call, sent, body, response, result>>

\* scanner.Scan() gave any other line: continue.
ScanOther ==
    /\ pc = "scan"
    /\ Len(read) < MaxLines
    /\ \E line \in Lines :
        /\ line # ""
        /\ ~HasPrefix(line, "data:")
        /\ ~HasPrefix(line, "event:")
        /\ read' = Append(read, line)
    /\ UNCHANGED <<pc, currentEvent, currentData, calls, decodes, err,
                   call, sent, body, response, result>>

\* scanner.Scan() is false and scanner.Err() is nil: the stream ended.
ScanEOF ==
    /\ pc = "scan"
    /\ pc' = "returned"
    /\ err' = NilError
    /\ body' = DeferredClose(body)
    /\ UNCHANGED <<read, currentEvent, currentData, calls, decodes,
                   call, sent, response, result>>

\* A loop that notes the scanner's error and goes round again.
ScanErrRetried ==
    /\ pc = "scan"
    /\ err' = [kind |-> "read", e |-> "scanner.Err"]
    /\ UNCHANGED <<pc, read, currentEvent, currentData, calls, decodes,
                   call, sent, body, response, result>>

\* scanner.Scan() is false and scanner.Err() is not nil (chat.go:246-248):
\* reading the body failed, or a line is longer than the scanner's buffer may
\* grow (bufio.ErrTooLong).
ScanErr ==
    /\ pc = "scan"
    /\ pc' = "returned"
    /\ err' = [kind |-> "read", e |-> "scanner.Err"]
    /\ body' = DeferredClose(body)
    /\ UNCHANGED <<read, currentEvent, currentData, calls, decodes,
                   call, sent, response, result>>

Next ==
    \/ DoRequestOK
    \/ DoRequestFail
    \/ ScanBlank
    \/ ScanData
    \/ ScanEvent
    \/ ScanOther
    \/ ScanEOF
    \/ ScanErr

Spec == Init /\ [][Next]_vars

\* Chat runs on: DoRequest, scanner.Scan() and the handler all return, so a
\* step that can be taken is taken.
SpecLive == Init /\ [][Next]_vars /\ WF_vars(Next)

----------------------------------------------------------------------------
(* Chat called again on the same ChatAPI once a call has returned.  The    *)
(* ChatAPI holds the client and nothing else (chat.go:27-29); the event    *)
(* name and the data buffer are locals that every call declares anew       *)
(* (chat.go:118-119), and so are the scanner and the response.             *)

\* A ChatAPI that keeps the event name and the data buffer between calls.
ChatAgainKeepsState ==
    /\ pc = "returned"
    /\ call.api = "Chat"
    /\ pc' = "request"
    /\ read' = <<>>
    /\ calls' = <<>>
    /\ decodes' = <<>>
    /\ err' = NoError
    /\ sent' = <<>>
    /\ body' = "none"
    /\ call' = [call EXCEPT !.earlier = TRUE]
    /\ UNCHANGED <<currentEvent, currentData, response, result>>

\* The next call of Chat: its own request, scanner and locals.
ChatAgain ==
    /\ pc = "returned"
    /\ call.api = "Chat"
    /\ pc' = "request"
    /\ read' = <<>>
    /\ currentEvent' = InitialEvent
    /\ currentData' = <<>>
    /\ calls' = <<>>
    /\ decodes' = <<>>
    /\ err' = NoError
    /\ sent' = <<>>
    /\ body' = "none"
    /\ call' = [call EXCEPT !.earlier = TRUE]
    /\ UNCHANGED <<response, result>>

NextCalls == Next \/ ChatAgain

SpecCalls == Init /\ [][NextCalls]_vars

----------------------------------------------------------------------------
(* The dispatch of one block, for every event name of the switch: Chat has *)
(* scanned an optional event: line and the block's data: lines, and the    *)
(* blank line comes next.                                                  *)

EventNames == {"flowNodeStatus", "answer", "fastAnswer", "flowResponses",
               "interactive", "toolCall", "toolParams", "toolResponse",
               "updateVariables", "error", "message", "custom"}

RECURSIVE ScanDataLines(_)
ScanDataLines(lines) ==
    IF Len(lines) = 0 THEN <<>>
    ELSE <<DataValue(lines[1])>> \o ScanDataLines(Tail(lines))

BlockDataLines ==
    UNION {[1..n -> DataLines] : n \in 1..MaxBlockData}

InitDispatch ==
    /\ pc = "scan"
    /\ calls = <<>>
    /\ decodes = <<>>
    /\ err = NoError
    /\ call = [api |-> "Chat", client |-> ChatClient, arg |-> "value",
               earlier |-> FALSE]
    /\ sent = <<NewRequest(ChatClient, "POST", "/api/v1/chat/completions", "value")>>
    /\ body = "open"
    /\ response = NoResponse
    /\ result = NoResult
    /\ \E head \in {<<>>} \cup {<<"event: " \o name>> : name \in EventNames},
          lines \in BlockDataLines :
        /\ read = head \o lines
        /\ currentEvent =
             IF Len(head) = 0 THEN InitialEvent ELSE EventValue(head[1], InitialEvent)
        /\ currentData = ScanDataLines(lines)

NextDispatch == ScanBlank

SpecDispatch == InitDispatch /\ [][NextDispatch]_vars

----------------------------------------------------------------------------
(* encoding/json on JSON values, as Client.ParseResponse and the dataset   *)
(* methods use it.  A JSON value is null, a string, a number or an object; *)
(* "invalid" stands for bytes that are not JSON and "nil" for no bytes at  *)
(* all (a nil json.RawMessage).  Object keys are matched as written: the   *)
(* model's keys differ in more than their case.                            *)

JNull == [kind |-> "null"]
JString(s) == [kind |-> "string", str |-> s]
JNumber(n) == [kind |-> "number", num |-> n]
JObject(fields) == [kind |-> "object", fields |-> fields]
JInvalid == [kind |-> "invalid"]
NilRaw == [kind |-> "nil"]

\* The structures of package model, by the json tags of their fields; of
\* the longer ones the fields the model's servers send.
StructFields ==
    [BaseResponse |-> [code |-> "int", statusText |-> "string",
                       message |-> "string", data |-> "RawMessage"],
     GetHistoriesResponse |-> [total |-> "int"],
     DatasetInfo |-> [name |-> "string", intro |-> "string"],
     CollectionCreateResponse |-> [collectionId |-> "string"],
     CollectionInfo |-> [name |-> "string", dataAmount |-> "int"],
     DatasetData |-> [q |-> "string", a |-> "string"],
     AppTotalDataResponse |-> [code |-> "int", statusText |-> "string",
                               message |-> "string", data |-> "AppTotalData"],
     AppTotalData |-> [totalUsers |-> "int", totalChats |-> "int",
                       totalPoints |-> "int"]]

\* Go's zero value of a type.
RECURSIVE Zero(_)
Zero(type) ==
    CASE type = "int" -> 0
      [] type = "string" -> ""
      [] type = "RawMessage" -> NilRaw
      [] OTHER -> [k \in DOMAIN StructFields[type] |-> Zero(StructFields[type][k])]

\* The decoder on one value: null leaves the target as it is, a value of
\* the wrong kind is an UnmarshalTypeError, an object fills the fields whose
\* keys it has and ignores its other keys; a RawMessage takes any value.
RECURSIVE Decode(_, _, _)
Decode(j, type, cur) ==
    IF type = "RawMessage" THEN [ok |-> TRUE, value |-> j]
    ELSE IF j.kind = "null" THEN [ok |-> TRUE, value |-> cur]
    ELSE IF type = "string"
    THEN (IF j.kind = "string" THEN [ok |-> TRUE, value |-> j.str]
          ELSE [ok |-> FALSE, value |-> cur])
    ELSE IF type = "int"
    THEN (IF j.kind = "number" THEN [ok |-> TRUE, value |-> j.num]
          ELSE [ok |-> FALSE, value |-> cur])
    ELSE IF j.kind # "object" THEN [ok |-> FALSE, value |-> cur]
    ELSE LET fields == StructFields[type]
             field(k) == IF k \in DOMAIN j.fields
                         THEN Decode(j.fields[k], fields[k], cur[k])
                         ELSE [ok |-> TRUE, value |-> cur[k]]
         IN  [ok |-> \A k \in DOMAIN fields : field(k).ok,
              value |-> [k \in DOMAIN fields |-> field(k).value]]

\* json.Unmarshal(data, v): a syntax error for bytes that are not one JSON
\* value, an InvalidUnmarshalError for v == nil (type "nil"), else the decoder.
JSONUnmarshal(data, type, cur) ==
    IF data.kind \in {"nil", "invalid"} THEN [ok |-> FALSE, value |-> cur]
    ELSE IF type = "nil" THEN [ok |-> FALSE, value |-> cur]
    ELSE Decode(data, type, cur)

\* json.Marshal(baseResp.Data): a nil RawMessage is written as null.
MarshalRaw(raw) == IF raw.kind = "nil" THEN JNull ELSE raw

JSONError(type) == [kind |-> "json", e |-> type]

----------------------------------------------------------------------------
(* Client.ParseResponse (src/unnamed/part_001:374-403). *)

\* if baseResp.Code != 200
SuccessCode == 200

\* A ParseResponse that leaves the body open.
ParseResponseLeaks(b) == b

\* defer resp.Body.Close() (part_001:375): the body after ParseResponse.
ParseResponseClose(b) == "closed"

\* The error ParseResponse returns and the value it leaves in v.
ParseResponse(resp, type, cur) ==
    IF resp.body.kind = "readerror"
    THEN [err |-> [kind |-> "read", e |-> "io.ReadAll"], value |-> cur]
    ELSE LET base == JSONUnmarshal(resp.body, "BaseResponse", Zero("BaseResponse"))
             whole == JSONUnmarshal(resp.body, type, cur)
             data == JSONUnmarshal(base.value.data, type, cur)
         IN  IF ~base.ok
             THEN [err |-> IF whole.ok THEN NilError ELSE JSONError(type),
                   value |-> whole.value]
             ELSE IF base.value.code # SuccessCode
             THEN [err |-> [kind |-> "api", e |-> base.value.message], value |-> cur]
             ELSE [err |-> IF data.ok THEN NilError ELSE JSONError(type),
                   value |-> data.value]

----------------------------------------------------------------------------
(* The request/response methods: one call of one method on one Client.     *)

ErrorOnlyAPIs == {"UpdateHistory", "DeleteHistory", "ClearHistories",
                  "DeleteItem", "UpdateUserFeedback"}
CreateAPIs == {"CreateDataset", "CreateCollection", "CreateTrainOrder"}
DetailAPIs == {"GetDatasetDetail", "CreateTextCollection",
               "GetCollectionDetail", "GetDataDetail"}
APIs == ErrorOnlyAPIs \cup CreateAPIs \cup DetailAPIs
            \cup {"GetHistories", "GetTotalData", "BatchAddData"}

\* Each method's DoRequest call, the arguments it can pass as the body, and
\* the structure it decodes into.
API ==
    [GetHistories |->
        [method |-> "POST", path |-> "/api/core/chat/getHistories",
         args |-> {"value", "nilptr"}, type |-> "GetHistoriesResponse"],
     UpdateHistory |->
        [method |-> "POST", path |-> "/api/core/chat/updateHistory",
         args |-> {"value", "nilptr"}, type |-> "nil"],
     DeleteHistory |->
        [method |-> "DELETE", path |-> "/api/core/chat/delHistory?chatId=c&appId=a",
         args |-> {"nil"}, type |-> "nil"],
     ClearHistories |->
        [method |-> "DELETE", path |-> "/api/core/chat/clearHistories?appId=a",
         args |-> {"nil"}, type |-> "nil"],
     DeleteItem |->
        [method |-> "DELETE",
         path |-> "/api/core/chat/item/delete?contentId=i&chatId=c&appId=a",
         args |-> {"nil"}, type |-> "nil"],
     UpdateUserFeedback |->
        [method |-> "POST", path |-> "/api/core/chat/feedback/updateUserFeedback",
         args |-> {"value", "nilptr"}, type |-> "nil"],
     CreateDataset |->
        [method |-> "POST", path |-> "/api/core/dataset/create",
         args |-> {"value", "nilptr"}, type |-> "string"],
     CreateCollection |->
        [method |-> "POST", path |-> "/api/core/dataset/collection/create",
         args |-> {"value", "nilptr"}, type |-> "string"],
     CreateTrainOrder |->
        [method |-> "POST", path |-> "/api/support/wallet/usage/createTrainingUsage",
         args |-> {"value", "nilptr"}, type |-> "string"],
     GetDatasetDetail |->
        [method |-> "GET", path |-> "/api/core/dataset/detail?id=d",
         args |-> {"nil"}, type |-> "DatasetInfo"],
     CreateTextCollection |->
        [method |-> "POST", path |-> "/api/core/dataset/collection/create/text",
         args |-> {"value", "nilptr"}, type |-> "CollectionCreateResponse"],
     GetCollectionDetail |->
        [method |-> "GET", path |-> "/api/core/dataset/collection/detail?id=c",
         args |-> {"nil"}, type |-> "CollectionInfo"],
     GetDataDetail |->
        [method |-> "GET", path |-> "/api/core/dataset/data/detail?id=x",
         args |-> {"nil"}, type |-> "DatasetData"],
     GetTotalData |->
        [method |-> "GET", path |-> "/api/proApi/core/app/logs/getTotalData?appId=a",
         args |-> {"nil"}, type |-> "AppTotalDataResponse"],
     BatchAddData |->
        [method |-> "POST", path |-> "/api/proApi/core/dataset/data/batch",
         args |-> {"value", "nilptr"}, type |-> "nil"]]

\* What a server can answer: the data of an envelope, absent ("nil") or
\* present; the envelope; and bodies that are no envelope.
DataObjects ==
    {JObject([name |-> JString("kb"), intro |-> JString("docs")]),
     JObject([collectionId |-> JString("c1")]),
     JObject([name |-> JString("col"), dataAmount |-> JNumber(3)]),
     JObject([q |-> JString("Q"), a |-> JString("A")]),
     JObject([total |-> JNumber(2)]),
     JObject([totalUsers |-> JNumber(5), totalChats |-> JNumber(7),
              totalPoints |-> JNumber(9)])}

EnvelopeData == {NilRaw, JNull, JString("id1")} \cup DataObjects

Envelope(code, data) ==
    IF data.kind = "nil"
    THEN JObject([code |-> JNumber(code), statusText |-> JString(""),
                  message |-> JString(IF code = 200 THEN "" ELSE "failed")])
    ELSE JObject([code |-> JNumber(code), statusText |-> JString(""),
                  message |-> JString(IF code = 200 THEN "" ELSE "failed"),
                  data |-> data])

Bodies ==
    {Envelope(code, data) : code \in {200, 500}, data \in EnvelopeData}
        \cup {JString("ok"), JInvalid, [kind |-> "readerror"]}

Responses == [status : {200, 500}, body : Bodies]

\* The values a method returns beside its error.
NoValue == [kind |-> "void"]
NilPointer == [kind |-> "nil"]
StringValue(s) == [kind |-> "string", str |-> s]
PointerTo(type, value) == [kind |-> "struct", type |-> type, fields |-> value]

\* What each method returns beside a non-nil error.
ZeroReturn(api) ==
    IF api \in ErrorOnlyAPIs \cup {"BatchAddData"} THEN NoValue
    ELSE IF api \in CreateAPIs THEN StringValue("")
    ELSE NilPointer

InitAPI ==
    /\ pc = "request"
    /\ read = <<>>
    /\ currentEvent = InitialEvent
    /\ currentData = <<>>
    /\ calls = <<>>
    /\ decodes = <<>>
    /\ err = NoError
    /\ \E api \in APIs, c \in Clients :
        \E arg \in API[api].args :
            call = [api |-> api, client |-> c, arg |-> arg, earlier |-> FALSE]
    /\ sent = <<>>
    /\ body = "none"
    /\ response = NoResponse
    /\ result = NoResult

chatVars == <<read, currentEvent, currentData, calls, decodes>>

\* resp, err := api.client.DoRequest(...) with err == nil.
MethodDoRequestOK ==
    /\ pc = "request"
    /\ call.api \in APIs
    /\ "ok" \in DoRequestOutcomes(call.client, call.arg)
    /\ DoRequest(API[call.api].method, API[call.api].path, "ok")
    /\ response' \in Responses
    /\ body' = "open"
    /\ pc' = "parse"
    /\ UNCHANGED <<chatVars, err, call, result>>

\* if err != nil { return ..., err } after DoRequest.
MethodDoRequestFail ==
    /\ pc = "request"
    /\ call.api \in APIs
    /\ \E outcome \in DoRequestOutcomes(call.client, call.arg) \ {"ok"} :
        /\ DoRequest(API[call.api].method, API[call.api].path, outcome)
        /\ err' = RequestError(outcome)
    /\ result' = ZeroReturn(call.api)
    /\ pc' = "returned"
    /\ UNCHANGED <<chatVars, call, body, response>>

\* return value, err
Return(value, e) ==
    /\ pc' = "returned"
    /\ err' = e
    /\ result' = IF e.kind = "nil" THEN value ELSE ZeroReturn(call.api)
    /\ UNCHANGED <<chatVars, call, sent, response>>

\* GetHistories after DoRequest (chat.go:273-280).
GetHistories ==
    /\ pc = "parse"
    /\ call.api = "GetHistories"
    /\ LET type == API[call.api].type
           r == ParseResponse(response, type, Zero(type))
       IN  Return(PointerTo(type, r.value), r.err)
    /\ body' = DeferredClose(ParseResponseClose(body))

\* UpdateHistory, DeleteHistory, ClearHistories, DeleteItem and
\* UpdateUserFeedback after DoRequest: ParseResponse(resp, nil).
UpdateHistory ==
    /\ pc = "parse"
    /\ call.api \in ErrorOnlyAPIs
    /\ LET r == ParseResponse(response, "nil", NilRaw)
       IN  Return(NoValue, r.err)
    /\ body' = DeferredClose(ParseResponseClose(body))

\* ParseResponse into a BaseResponse, then baseResp.Data marshalled and
\* decoded into the method's own type (part_004:74-90).
ParseThenDecodeData(type) ==
    LET base == ParseResponse(response, "BaseResponse", Zero("BaseResponse"))
        dataBytes == MarshalRaw(base.value.data)
        r == JSONUnmarshal(dataBytes, type, Zero(type))
    IN  IF base.err.kind # "nil" THEN [err |-> base.err, value |-> Zero(type)]
        ELSE IF ~r.ok THEN [err |-> JSONError(type), value |-> Zero(type)]
        ELSE [err |-> NilError, value |-> r.value]

\* CreateDataset, CreateCollection and CreateTrainOrder after DoRequest.
CreateDataset ==
    /\ pc = "parse"
    /\ call.api \in CreateAPIs
    /\ LET r == ParseThenDecodeData("string")
       IN  Return(StringValue(r.value), r.err)
    /\ body' = ParseResponseClose(body)

\* GetDatasetDetail, CreateTextCollection, GetCollectionDetail and
\* GetDataDetail after DoRequest.
GetDatasetDetail ==
    /\ pc = "parse"
    /\ call.api \in DetailAPIs
    /\ LET type == API[call.api].type
           r == ParseThenDecodeData(type)
       IN  Return(PointerTo(type, r.value), r.err)
    /\ body' = ParseResponseClose(body)

\* GetTotalData after DoRequest (part_004:1018-1024).
GetTotalData ==
    /\ pc = "parse"
    /\ call.api = "GetTotalData"
    /\ LET type == API[call.api].type
           r == ParseResponse(response, type, Zero(type))
       IN  Return(PointerTo(type, r.value), r.err)
    /\ body' = ParseResponseClose(body)

\* BatchAddData after DoRequest (src/api/dataset/dataset.go:218-220):
\* resp.Body.Close(); return nil.
BatchAddData ==
    /\ pc = "parse"
    /\ call.api = "BatchAddData"
    /\ Return(NoValue, NilError)
    /\ body' = "closed"

NextAPI ==
    \/ MethodDoRequestOK
    \/ MethodDoRequestFail
    \/ GetHistories
    \/ UpdateHistory
    \/ CreateDataset
    \/ GetDatasetDetail
    \/ GetTotalData
    \/ BatchAddData

SpecAPI == InitAPI /\ [][NextAPI]_vars

\* Every method of the SDK, Chat among them.
InitClient == Init \/ InitAPI
NextClient == Next \/ NextAPI
SpecClient == InitClient /\ [][NextClient]_vars

----------------------------------------------------------------------------
(* What the stream read so far says, for the properties below. *)

IsDataLine(line) == Len(line) >= 5 /\ SubSeq(line, 1, 5) = "data:"
IsEventLine(line) == Len(line) >= 6 /\ SubSeq(line, 1, 6) = "event:"

\* The data: lines among read[lo..hi].
DataLinesIn(lo, hi) == {j \in lo..hi : j \in 1..Len(read) /\ IsDataLine(read[j])}
EventLinesIn(lo, hi) == {j \in lo..hi : j \in 1..Len(read) /\ IsEventLine(read[j])}

\* The last blank line before line i, 0 when there is none.
PrevBlank(i) ==
    LET blanks == {j \in 1..(i - 1) : read[j] = ""} IN
    IF blanks = {} THEN 0 ELSE CHOOSE j \in blanks : \A k \in blanks : k <= j

\* The blank lines that end an event block: a run of lines with a data: line.
BlockEnds ==
    {i \in 1..Len(read) : read[i] = "" /\ DataLinesIn(PrevBlank(i) + 1, i - 1) # {}}

\* The line of the dispatch before call n, 0 for the first.
PrevCallAt(n) == IF n = 1 THEN 0 ELSE calls[n - 1].at

Failed == err.kind \in {"handler", "decode"}

----------------------------------------------------------------------------
(* C1: the handler is invoked exactly once for each event block that       *)
(* precedes the first failure, in the order of the blocks: the n-th        *)
(* invocation is made at the blank line that ends the n-th block, and      *)
(* while nothing has failed every block read has had its invocation.       *)
HandlerOncePerBlockInOrder ==
    /\ \A n \in 1..Len(calls) :
        /\ calls[n].at \in BlockEnds
        /\ Cardinality({i \in BlockEnds : i <= calls[n].at}) = n
    /\ ~Failed => Len(calls) = Cardinality(BlockEnds)
    /\ Failed => Len(calls) >= Cardinality(BlockEnds) - 1

\* Two blocks delivered, with a blank line in between that ended no block.
HandlerOncePerBlockWitness ==
    /\ Len(calls) = 2
    /\ calls[2].ret = "nil"
    /\ \E i \in 1..Len(read) : read[i] = "" /\ i \notin BlockEnds

(* C2: a handler error is terminal: the call that returned it is the last  *)
(* one, Chat has returned that very error, and no line was read after the  *)
(* blank line the call was made at.                                        *)
HandlerErrorIsTerminal ==
    \A n \in 1..Len(calls) :
        calls[n].ret # "nil" =>
            /\ n = Len(calls)
            /\ pc = "returned"
            /\ err = [kind |-> "handler", e |-> calls[n].ret]
            /\ Len(read) = calls[n].at

\* The handler failed on the second event of a stream.
HandlerErrorWitness ==
    /\ Len(calls) = 2
    /\ calls[2].ret = "E2"
    /\ pc = "returned"

\* This step reads the blank line that ends a block with accumulated data.
BlankStep ==
    /\ pc = "scan"
    /\ read' = Append(read, "")
    /\ Len(currentData) > 0

\* This step invokes the handler.
InvokedStep == Len(calls') = Len(calls) + 1
LastCall == calls[Len(calls)]

TypedEvents == {"flowNodeStatus", "answer", "fastAnswer", "flowResponses",
                "interactive"}

DonePayload(eventName, payload) ==
    eventName \in {"answer", "fastAnswer"} /\ payload = "[DONE]"

(* C3 as stated: whenever the joined payload of a flowNodeStatus, answer,  *)
(* fastAnswer, flowResponses or interactive event is not valid JSON for    *)
(* its structure, Chat returns the decode error without invoking the       *)
(* handler.  It fails on the payload [DONE] of an answer event.            *)
DecodeErrorOnEveryInvalidPayload ==
    [][(/\ BlankStep
        /\ currentEvent \in TypedEvents
        /\ ~Unmarshal(dataContent, DecodeTarget(currentEvent)).ok)
       => (/\ pc' = "returned"
           /\ err'.kind = "decode"
           /\ calls' = calls)]_vars

(* C3 amended: the same for every payload but the [DONE] of an answer or   *)
(* fastAnswer event; and once Chat has returned the decode error nothing   *)
(* is read and the handler is not invoked again.                           *)
DecodeErrorIsTerminal ==
    [][/\ (/\ BlankStep
           /\ currentEvent \in TypedEvents
           /\ ~DonePayload(currentEvent, dataContent)
           /\ ~Unmarshal(dataContent, DecodeTarget(currentEvent)).ok)
          => (/\ pc' = "returned"
              /\ err'.kind = "decode"
              /\ calls' = calls)
       /\ err.kind = "decode" => (calls' = calls /\ read' = read)]_vars

\* A decode error after an event that was delivered.
DecodeErrorWitness ==
    /\ err.kind = "decode"
    /\ pc = "returned"
    /\ Len(calls) = 1
    /\ ~decodes[Len(decodes)].ok

(* C4 as stated: a delivered [DONE] is the last delivery of the stream.    *)
DoneEndsDelivery ==
    \A n \in 1..Len(calls) :
        calls[n].data = [type |-> "string", value |-> "[DONE]"] => n = Len(calls)

(* C4 amended: [DONE] does not end the stream by itself.  When the handler *)
(* returns nil on it, Chat empties the data buffer and stays in its loop;  *)
(* every block the stream has after it is delivered as usual, until the    *)
(* stream ends or something fails.                                         *)
DoneDoesNotEndDelivery ==
    /\ [][(/\ InvokedStep
           /\ calls'[Len(calls')].data = [type |-> "string", value |-> "[DONE]"]
           /\ calls'[Len(calls')].ret = "nil")
          => (pc' = "scan" /\ currentData' = <<>>)]_vars
    /\ [](\A n \in 1..Len(calls) :
            (/\ calls[n].data = [type |-> "string", value |-> "[DONE]"]
             /\ ~Failed)
            => Len(calls) - n = Cardinality({i \in BlockEnds : i > calls[n].at}))

\* An event delivered after the [DONE] of an answer event.
DoneDoesNotEndWitness ==
    /\ Len(calls) = 2
    /\ calls[1].eventType = "answer"
    /\ calls[1].data = [type |-> "string", value |-> "[DONE]"]
    /\ calls[2].at > calls[1].at

(* C5: for an answer or fastAnswer event whose joined payload is exactly   *)
(* [DONE], Chat decodes nothing and invokes the handler with the event     *)
(* name and the string "[DONE]"; when the handler returns nil Chat has not *)
(* failed: it is still in its loop with no error.                          *)
DoneDeliveredAsString ==
    [][(/\ BlankStep
        /\ currentEvent \in {"answer", "fastAnswer"}
        /\ dataContent = "[DONE]")
       => (/\ decodes' = decodes
           /\ InvokedStep
           /\ calls'[Len(calls')].eventType = currentEvent
           /\ calls'[Len(calls')].data = [type |-> "string", value |-> "[DONE]"]
           /\ calls'[Len(calls')].ret = "nil" => (pc' = "scan" /\ err' = err))]_vars

\* fastAnswer's [DONE], joined from two data: lines, taken with nil.
DoneDeliveredWitness ==
    /\ Len(calls) = 1
    /\ calls[1].eventType = "fastAnswer"
    /\ calls[1].data = [type |-> "string", value |-> "[DONE]"]
    /\ calls[1].ret = "nil"
    /\ Cardinality(DataLinesIn(1, calls[1].at)) = 2
    /\ decodes = <<>>
    /\ pc = "scan"

\* The text of a data: line after "data:", less one leading space if any.
StripOneSpace(line) ==
    LET rest == SubSeq(line, 6, Len(line)) IN
    IF Len(rest) > 0 /\ SubSeq(rest, 1, 1) = " "
    THEN SubSeq(rest, 2, Len(rest)) ELSE rest

\* The values of the data: lines among read[lo..hi], one after the other.
RECURSIVE ConcatValues(_, _)
ConcatValues(lo, hi) ==
    IF lo > hi THEN ""
    ELSE (IF IsDataLine(read[lo]) THEN StripOneSpace(read[lo]) ELSE "")
         \o ConcatValues(lo + 1, hi)

\* The line of the last dispatch before line i, 0 when there is none.
PrevDispatchAt(i) ==
    LET before == {calls[n].at : n \in 1..Len(calls)} \cap 1..(i - 1) IN
    IF before = {} THEN 0 ELSE CHOOSE j \in before : \A k \in before : k <= j

(* C6: the payload of a dispatched event, delivered or failing to decode,  *)
(* is the values of all data: lines read since the previous dispatch, in   *)
(* stream order with nothing between them; an undecoded event hands that   *)
(* very string to the handler.                                             *)
PayloadIsConcatenation ==
    /\ \A n \in 1..Len(calls) :
        /\ calls[n].payload = ConcatValues(PrevCallAt(n) + 1, calls[n].at - 1)
        /\ calls[n].data.type = "string" => calls[n].data.value = calls[n].payload
    /\ \A k \in 1..Len(decodes) :
        decodes[k].payload =
            ConcatValues(PrevDispatchAt(decodes[k].at) + 1, decodes[k].at - 1)

\* Two data: lines, "{}" and " ", joined into the payload of a decoded event.
PayloadConcatenationWitness ==
    /\ Len(calls) = 1
    /\ calls[1].eventType = "flowNodeStatus"
    /\ calls[1].payload = "{} "
    /\ calls[1].data.type = "FlowNodeStatusEvent"
    /\ Cardinality(DataLinesIn(1, calls[1].at)) = 2

(* C7: the value of a data: line is the text after "data:" with exactly    *)
(* one leading space removed when present, and every data: line, also one *)
(* with the empty value, adds one element to the accumulated data.         *)
DataValueStripsOneSpace ==
    /\ (Len(read) > 0 /\ IsDataLine(read[Len(read)])) =>
        /\ Len(currentData) =
             Cardinality(DataLinesIn(PrevDispatchAt(Len(read)) + 1, Len(read)))
        /\ currentData[Len(currentData)] = StripOneSpace(read[Len(read)])
    /\ DataValue("data: x") = "x"
    /\ DataValue("data:x") = "x"
    /\ DataValue("data:  x") = " x"
    /\ DataValue("data:") = ""

\* "data:  " gave " ", then "data:" gave "" as a second element.
DataValueWitness ==
    /\ Len(read) >= 2
    /\ read[Len(read) - 1] = "data:  "
    /\ read[Len(read)] = "data:"
    /\ currentData = <<" ", "">>

\* The data type C8 names for each event name.
ClaimedType(eventName) ==
    CASE eventName = "flowNodeStatus" -> "FlowNodeStatusEvent"
      [] eventName \in {"answer", "fastAnswer"} -> "AnswerEvent"
      [] eventName = "flowResponses" -> "FlowResponsesEvent"
      [] eventName = "interactive" -> "Interactive"
      [] OTHER -> "string"

(* C8 as stated: the handler's data is of the type its event name selects, *)
(* answer and fastAnswer giving an AnswerEvent.  It fails on their [DONE]  *)
(* payload, which is handed over as a string.                              *)
DataTypeByEventName ==
    [][BlankStep =>
        /\ InvokedStep => /\ calls'[Len(calls')].eventType = currentEvent
                          /\ calls'[Len(calls')].data.type = ClaimedType(currentEvent)
        /\ ClaimedType(currentEvent) = "string" =>
            /\ decodes' = decodes
            /\ InvokedStep
            /\ calls'[Len(calls')].data = [type |-> "string", value |-> dataContent]
            /\ err'.kind # "decode"]_vars

(* C8 amended: as stated, but an answer or fastAnswer event whose payload  *)
(* is exactly [DONE] gives the string "[DONE]" and not an AnswerEvent.     *)
DataTypeByEventNameButDone ==
    [][BlankStep =>
        /\ InvokedStep =>
            /\ calls'[Len(calls')].eventType = currentEvent
            /\ calls'[Len(calls')].data.type =
                 IF DonePayload(currentEvent, dataContent) THEN "string"
                 ELSE ClaimedType(currentEvent)
        /\ ClaimedType(currentEvent) = "string" =>
            /\ decodes' = decodes
            /\ InvokedStep
            /\ calls'[Len(calls')].data = [type |-> "string", value |-> dataContent]
            /\ err'.kind # "decode"]_vars

\* An interactive event decoded from a payload of two data: lines.
DataTypeInteractiveWitness ==
    /\ Len(calls) = 1
    /\ calls[1].eventType = "interactive"
    /\ calls[1].data.type = "Interactive"
    /\ Len(decodes) = 1
    /\ decodes[1].ok
    /\ Cardinality(DataLinesIn(1, calls[1].at)) = 2

(* C9: after every dispatched event, a [DONE] one included, the current    *)
(* event name is "message": a later block with data: lines and no event:   *)
(* line is delivered with eventType "message".                             *)
EventNameResetAfterDispatch ==
    /\ \A n \in 2..Len(calls) :
        EventLinesIn(calls[n - 1].at + 1, calls[n].at - 1) = {}
            => calls[n].eventType = "message"
    /\ (Len(calls) > 0 /\ LastCall.ret = "nil" /\ Len(read) = LastCall.at)
            => currentEvent = "message"

\* A block without event: line delivered as "message" after answer's [DONE].
EventNameResetWitness ==
    /\ Len(calls) = 2
    /\ calls[1].eventType = "answer"
    /\ calls[1].data = [type |-> "string", value |-> "[DONE]"]
    /\ EventLinesIn(calls[1].at + 1, calls[2].at - 1) = {}
    /\ calls[2].eventType = "message"

\* The event: lines among read[lo..hi] that set a name.
NamingLinesIn(lo, hi) == {j \in EventLinesIn(lo, hi) : Len(read[j]) > 6}

(* C10: every block with data: lines that is reached with no event: line   *)
(* having set a name, the first block of the stream included, is delivered *)
(* with eventType "message".                                               *)
DefaultEventNameIsMessage ==
    \A n \in 1..Len(calls) :
        NamingLinesIn(PrevCallAt(n) + 1, calls[n].at - 1) = {}
            => calls[n].eventType = "message"

\* The name an event: line carries: its text after "event:", less one
\* leading space if any.
EventNameOf(line) ==
    LET rest == SubSeq(line, 7, Len(line)) IN
    IF Len(rest) > 0 /\ SubSeq(rest, 1, 1) = " "
    THEN SubSeq(rest, 2, Len(rest)) ELSE rest

\* The last line among a non-empty set of line numbers.
LastOf(lineNumbers) == CHOOSE j \in lineNumbers : \A k \in lineNumbers : k <= j

(* C11: an event name set by an event: line persists across blank lines    *)
(* that dispatch nothing: a block is delivered with the name of the last   *)
(* naming event: line read since the previous dispatch, however many blank *)
(* lines lie between that line and the block's data: lines.                *)
EventNamePersistsAcrossBlankLines ==
    \A n \in 1..Len(calls) :
        LET named == NamingLinesIn(PrevCallAt(n) + 1, calls[n].at - 1) IN
        named # {} => calls[n].eventType = EventNameOf(read[LastOf(named)])

\* event: answer, two blank lines, a data: line, the blank line: delivered
\* as "answer".
EventNamePersistsWitness ==
    /\ Len(calls) = 1
    /\ Len(read) = 5
    /\ read[1] = "event: answer"
    /\ read[2] = ""
    /\ read[3] = ""
    /\ IsDataLine(read[4])
    /\ calls[1].at = 5
    /\ calls[1].eventType = "answer"

(* C12: there is no retry.  A call of an API method, Chat included, has    *)
(* given HTTPClient.Do at most one request at any time, exactly one while  *)
(* it works on a response; and once sending, parsing, decoding, reading or *)
(* the handler has failed the method has returned, with that one request   *)
(* at most.                                                                *)
NoRetry ==
    /\ Len(sent) <= 1
    /\ pc \in {"scan", "parse"} => Len(sent) = 1
    /\ err.kind \notin {"none", "nil"} => (pc = "returned" /\ Len(sent) <= 1)

\* CreateDataset returned a decoding error after its one request.
NoRetryWitness ==
    /\ call.api = "CreateDataset"
    /\ pc = "returned"
    /\ err.kind = "json"
    /\ Len(sent) = 1

(* C13: when DoRequest fails (the step from the request leaves Chat        *)
(* without a response body), Chat returns DoRequest's error at once: it    *)
(* never scans and the handler is never invoked.                           *)
RequestErrorEndsChat ==
    /\ [][(pc = "request" /\ body' # "open")
            => (/\ pc' = "returned"
                /\ err'.kind = "request"
                /\ err'.e \in {"Marshal", "NewRequest", "Do"}
                /\ calls' = <<>>)]_vars
    /\ [](err.kind = "request"
            => (pc = "returned" /\ calls = <<>> /\ read = <<>>))

\* HTTPClient.Do failed: Chat has returned that error, no handler call made.
RequestErrorWitness ==
    /\ call.api = "Chat"
    /\ pc = "returned"
    /\ err = [kind |-> "request", e |-> "Do"]
    /\ Len(sent) = 1
    /\ calls = <<>>

(* C14: every response body an API method obtained is closed when the      *)
(* method has returned, whatever the return path: a method that returned   *)
(* anything but DoRequest's error has a closed body, and no returned       *)
(* method has an open one.                                                 *)
BodyClosedOnReturn ==
    pc = "returned" =>
        /\ body # "open"
        /\ err.kind # "request" => body = "closed"

\* GetTotalData, which leaves the closing to ParseResponse, returned the
\* error of an envelope whose code is not 200.
BodyClosedWitness ==
    /\ call.api = "GetTotalData"
    /\ pc = "returned"
    /\ err.kind = "api"
    /\ body = "closed"

\* The path each method gives DoRequest.
PathOf(api) ==
    IF api = "Chat" THEN "/api/v1/chat/completions" ELSE API[api].path

(* C15: every request given to HTTPClient.Do carries Authorization =       *)
(* "Bearer " + APIKey, Content-Type = application/json and User-Agent =    *)
(* go-fastgpt-client, and its URL is BaseURL + path; when the method       *)
(* passes nil as the body the request has no body.                         *)
RequestHeadersAndURL ==
    \A i \in 1..Len(sent) :
        /\ sent[i].header["Authorization"] = "Bearer " \o call.client.APIKey
        /\ sent[i].header["Content-Type"] = "application/json"
        /\ sent[i].header["User-Agent"] = "go-fastgpt-client"
        /\ sent[i].url = call.client.BaseURL \o PathOf(call.api)
        /\ call.arg = "nil" => sent[i].body.kind = "none"
        /\ call.arg # "nil" => sent[i].body.kind = "json"

\* A DELETE with a nil body, on a Client with the empty API key.
RequestHeadersWitness ==
    /\ call.api = "DeleteHistory"
    /\ call.arg = "nil"
    /\ call.client.APIKey = ""
    /\ Len(sent) = 1
    /\ sent[1].method = "DELETE"
    /\ sent[1].body.kind = "none"
    /\ sent[1].header["Authorization"] = "Bearer "

\* The server answered with a well-formed envelope whose code is 200.
AnsweredOK == \E d \in EnvelopeData : response.body = Envelope(200, d)

(* C16: UpdateHistory, DeleteHistory, ClearHistories, DeleteItem and       *)
(* UpdateUserFeedback return nil whenever the server answers with a        *)
(* well-formed envelope whose code is 200, and an error only when the      *)
(* request failed.  It fails on every such answer: ParseResponse is given  *)
(* the nil target, which json.Unmarshal rejects.                           *)
ErrorOnlyMethodsReturnNilOnSuccess ==
    (pc = "returned" /\ call.api \in ErrorOnlyAPIs) =>
        /\ AnsweredOK => err.kind = "nil"
        /\ err.kind # "nil" => (err.kind = "request" \/ ~AnsweredOK)

(* C17: when the server answers with an envelope of code 200 whose data is *)
(* a JSON string, CreateDataset, CreateCollection and CreateTrainOrder     *)
(* return that string and a nil error.  It fails: ParseResponse has        *)
(* already taken the envelope off and decodes the string into a            *)
(* BaseResponse.                                                           *)
CreateReturnsDataString ==
    \A s \in {"id1"} :
        (/\ pc = "returned"
         /\ call.api \in CreateAPIs
         /\ response.body = Envelope(200, JString(s)))
        => (err.kind = "nil" /\ result = StringValue(s))

\* What a JSON string or number is in Go.
GoValue(j) == IF j.kind = "string" THEN j.str ELSE j.num

(* C18: when the server answers with an envelope of code 200 whose data is *)
(* the JSON object of the method's structure, GetDatasetDetail,            *)
(* CreateTextCollection, GetCollectionDetail and GetDataDetail return a    *)
(* structure with every field taken from that object, not the zero         *)
(* structure.  It fails: the structure returned has every field zero.      *)
DetailPopulatedFromData ==
    \A d \in DataObjects :
        (/\ pc = "returned"
         /\ call.api \in DetailAPIs
         /\ DOMAIN d.fields = DOMAIN StructFields[API[call.api].type]
         /\ response.body = Envelope(200, d))
        => (/\ err.kind = "nil"
            /\ result.kind = "struct"
            /\ \A k \in DOMAIN d.fields : result.fields[k] = GoValue(d.fields[k])
            /\ result.fields # Zero(API[call.api].type))

(* C19: when the server answers GetTotalData with an envelope of code 200, *)
(* the AppTotalDataResponse returned has Code 200 and the TotalUsers,      *)
(* TotalChats and TotalPoints of the envelope's data.  It fails: Code and  *)
(* the three totals are all 0.                                             *)
TotalDataAsSent ==
    \A d \in DataObjects :
        (/\ pc = "returned"
         /\ call.api = "GetTotalData"
         /\ DOMAIN d.fields = DOMAIN StructFields["AppTotalData"]
         /\ response.body = Envelope(200, d))
        => (/\ err.kind = "nil"
            /\ result.kind = "struct"
            /\ result.fields.code = 200
            /\ result.fields.data.totalUsers = d.fields.totalUsers.num
            /\ result.fields.data.totalChats = d.fields.totalChats.num
            /\ result.fields.data.totalPoints = d.fields.totalPoints.num)

(* C20: BatchAddData returns a non-nil error when the response reports a   *)
(* failure status and nil only for a success status.  It fails: once       *)
(* DoRequest has succeeded BatchAddData returns nil whatever the status.   *)
BatchAddDataChecksStatus ==
    (pc = "returned" /\ call.api = "BatchAddData" /\ body # "none") =>
        /\ response.status # 200 => err.kind # "nil"
        /\ err.kind = "nil" => response.status = 200

\* This step reads a blank line with no data: line read since the previous
\* dispatch.
EmptyBlankStep ==
    /\ pc = "scan"
    /\ read' = Append(read, "")
    /\ DataLinesIn(PrevDispatchAt(Len(read) + 1) + 1, Len(read)) = {}

(* C21: the handler is invoked only at a blank line that has at least one  *)
(* data: line between it and the previous dispatch; a blank line with none *)
(* invokes no handler, decodes nothing, and leaves the current event name, *)
(* the data buffer and Chat's place in its loop as they were.              *)
EmptyBlankLineDoesNothing ==
    [][/\ EmptyBlankStep
          => (/\ calls' = calls
              /\ decodes' = decodes
              /\ currentEvent' = currentEvent
              /\ currentData' = currentData
              /\ pc' = pc
              /\ err' = err)
       /\ InvokedStep
          => (/\ read' = Append(read, "")
              /\ DataLinesIn(PrevDispatchAt(Len(read) + 1) + 1, Len(read)) # {})]_vars

\* An event: line followed directly by two blank lines: nothing invoked, the
\* name still set, the buffer still empty.
EmptyBlankLineWitness ==
    /\ read = <<"event: answer", "", "">>
    /\ calls = <<>>
    /\ decodes = <<>>
    /\ currentEvent = "answer"
    /\ currentData = <<>>
    /\ pc = "scan"

\* This step reads a non-blank line that starts with neither "data:" nor
\* "event:".
OtherStep ==
    /\ pc = "scan"
    /\ Len(read') = Len(read) + 1
    /\ SubSeq(read', 1, Len(read)) = read
    /\ LET line == read'[Len(read')] IN
        line # "" /\ ~IsDataLine(line) /\ ~IsEventLine(line)

\* Reading such a line invokes nothing and changes nothing but the place in
\* the stream.
OtherLineIgnored ==
    OtherStep => (/\ calls' = calls
                  /\ decodes' = decodes
                  /\ currentEvent' = currentEvent
                  /\ currentData' = currentData
                  /\ pc' = pc
                  /\ err' = err)

\* Chat has returned from a response body in which it read no data: line.
ReturnedWithoutData ==
    /\ pc = "returned"
    /\ err.kind # "request"
    /\ DataLinesIn(1, Len(read)) = {}

(* C22 as stated: a line that starts with neither "data:" nor "event:" is  *)
(* ignored, and a response body with no data: line makes Chat return nil   *)
(* with no handler invocation.  It fails when reading that body fails.     *)
NoDataLineReturnsNil ==
    /\ [][OtherLineIgnored]_vars
    /\ [](ReturnedWithoutData => (calls = <<>> /\ err.kind = "nil"))

(* C22 amended: such a line is ignored, and a response body with no data:  *)
(* line gives no handler invocation; Chat returns nil when that body ends, *)
(* and the read error when scanning it fails.                              *)
NoDataLineInvokesNothing ==
    /\ [][OtherLineIgnored]_vars
    /\ [](ReturnedWithoutData =>
            (/\ calls = <<>>
             /\ decodes = <<>>
             /\ err.kind \in {"nil", "read"}))
    /\ [][(pc = "scan" /\ pc' = "returned" /\ DataLinesIn(1, Len(read)) = {})
            => (err'.kind = "nil" \/ err' = [kind |-> "read", e |-> "scanner.Err"])]_vars

\* A body of a bare JSON line, an id: line, and an event: line between
\* them, read to its end: nil, nothing invoked.
NoDataLineWitness ==
    /\ read = <<"{}", "event: answer", "id: 1">>
    /\ pc = "returned"
    /\ err.kind = "nil"
    /\ calls = <<>>
    /\ currentEvent = "answer"
    /\ currentData = <<>>

\* The block ends of the stream read so far, in order: the n-th of them.
NthBlockEnd(n) ==
    IF n = 0 THEN 0
    ELSE CHOOSE i \in BlockEnds : Cardinality({j \in BlockEnds : j <= i}) = n

\* What the stream alone says of its n-th block: the name and the payload
\* it is dispatched with, and the data the handler is given for them.
BlockEvent(n) ==
    LET named == NamingLinesIn(NthBlockEnd(n - 1) + 1, NthBlockEnd(n) - 1) IN
    IF named # {} THEN EventNameOf(read[LastOf(named)])
    ELSE IF n = 1 THEN "" ELSE "message"

BlockPayload(n) == ConcatValues(NthBlockEnd(n - 1) + 1, NthBlockEnd(n) - 1)

BlockDecodes(n) ==
    /\ BlockEvent(n) \in TypedEvents
    /\ ~DonePayload(BlockEvent(n), BlockPayload(n))

BlockData(n) ==
    IF BlockDecodes(n)
    THEN [type |-> ClaimedType(BlockEvent(n)), value |-> "{}"]
    ELSE [type |-> "string", value |-> BlockPayload(n)]

\* The payload of the n-th block is JSON for a structure: {} or null, with
\* spaces around it or without.
BlockPayloadValid(n) ==
    LET text == TrimRightSpace(TrimLeftSpace(BlockPayload(n))) IN
    text = "{}" \/ text = "null"

\* The first block of the stream that fails to decode, 0 when none does.
FirstInvalidBlock ==
    LET invalid == {n \in 1..Cardinality(BlockEnds) :
                        BlockDecodes(n) /\ ~BlockPayloadValid(n)}
    IN  IF invalid = {} THEN 0 ELSE CHOOSE n \in invalid : \A k \in invalid : n <= k

ReadsNextLine ==
    /\ Len(read') = Len(read) + 1
    /\ SubSeq(read', 1, Len(read)) = read

(* C24: Chat terminates on every finite stream when the handler returns.   *)
(* Every turn of the loop either reads the next line of the stream, once   *)
(* and in order, or returns without reading; a return after a line is the  *)
(* decode or handler error of that line's dispatch, a return without one   *)
(* is nil at the end of the stream or the read error; nothing happens      *)
(* after the return; and Chat does return.                                 *)
ChatTerminates ==
    /\ [][pc = "scan" =>
            \/ (ReadsNextLine /\ pc' = "scan" /\ err' = err)
            \/ (ReadsNextLine /\ pc' = "returned"
                    /\ err'.kind \in {"decode", "handler"})
            \/ (read' = read /\ pc' = "returned"
                    /\ err'.kind \in {"nil", "read"})]_vars
    /\ [][pc # "returned"]_vars
    /\ <>(pc = "returned")

\* Chat has read a stream of five lines to its end and returned nil after
\* two invocations.
ChatTerminatesWitness ==
    /\ pc = "returned"
    /\ err.kind = "nil"
    /\ Len(read) = 5
    /\ Len(calls) = 2
====
